---- MODULE Spec2Model ----
(***************************************************************************)
(* CashNest: accounts, transactions, the recurring-transaction trigger and *)
(* processor.  The database is the pair (accounts, transactions); a server *)
(* action or background function is one step per database round trip that *)
(* other requests can interleave with.  Money is counted in whole units    *)
(* and dates in whole days since 2024-01-01.                               *)
(***************************************************************************)
EXTENDS Integers, FiniteSets, Sequences, Bags, TLC

\* ------------------------------------------------------------------ bounds
MaxTx == 3        \* transaction rows ever created
MaxNow == 1       \* days the clock runs
MaxEvents == 2    \* processing events queued or being processed
MaxDay == 40      \* days the budget checker is followed over
MaxCalls == 2     \* account requests in progress at the same time
MaxDate == 400    \* last day a recurring transaction is dated: 4 February 2025
MaxBalance == 200   \* balances between which the unchecked update is explored
MaxInFlight == 3    \* calls of one hook's fn in flight together

\* ------------------------------------------------------------ value domains
Users == {"u1", "u2"}
AccountIds == {"a1", "a2"}
TxIds == 1..MaxTx

NoDate == -1
NoInterval == "NONE"
Intervals == {"DAILY", "WEEKLY", "MONTHLY", "YEARLY"}

\* ------------------------------------------------------------------- state
VARIABLES
    now,            \* the clock read by new Date(), in days
    accounts,       \* Account table: id -> [userId, balance, isDefault]
    opening,        \* history: the balance each account was created with
    transactions,   \* Transaction table: id -> row
    nextTxId,       \* ids are never reused (uuid)
    events,         \* bag of "transaction.recurring.process" events in flight
    running,        \* bag of processor runs between their read and their writes
    last,           \* history: the outcome of the handler that finished last
    budgets,        \* Budget table: userId -> [amount, lastAlertSent]
    checking,       \* the budgets a run of the budget checker has fetched and not yet checked
    alerted,        \* history: userId -> the day the last budget alert email went out
    reporting,      \* the users a run of the monthly report job has fetched and not yet served
    calls,          \* bag of account requests between two of their database round trips
    hook            \* the state of one useFetch hook and the calls of its fn in flight

\* what the transaction handlers and the recurring-transaction functions never touch
jobVars == <<budgets, checking, alerted, reporting, calls, hook>>

vars == <<now, accounts, opening, transactions, nextTxId, events, running, last, jobVars>>

\* ------------------------------------------------------------ calendar (Date)
IsLeap(y) == (y % 4 = 0 /\ y % 100 # 0) \/ y % 400 = 0

DaysInMonth(y, m) ==
    IF m = 1 THEN (IF IsLeap(y) THEN 29 ELSE 28)
    ELSE IF m \in {3, 5, 8, 10} THEN 30 ELSE 31

DaysInYear(y) == IF IsLeap(y) THEN 366 ELSE 365

EpochYear == 2024

RECURSIVE DaysBeforeYear(_)
DaysBeforeYear(y) == IF y <= EpochYear THEN 0 ELSE DaysBeforeYear(y - 1) + DaysInYear(y - 1)

RECURSIVE DaysBeforeMonth(_, _)
DaysBeforeMonth(y, m) == IF m = 0 THEN 0 ELSE DaysBeforeMonth(y, m - 1) + DaysInMonth(y, m - 1)

\* new Date(y, m, d) with JavaScript's overflow of m (0-based) and d (1-based)
RECURSIVE DateOf(_, _, _)
DateOf(y, m, d) ==
    IF m > 11 THEN DateOf(y + 1, m - 12, d)
    ELSE DaysBeforeYear(y) + DaysBeforeMonth(y, m) + (d - 1)

RECURSIVE YearOf(_, _)
YearOf(day, y) == IF day < DaysBeforeYear(y + 1) THEN y ELSE YearOf(day, y + 1)

getFullYear(day) == YearOf(day, EpochYear)

RECURSIVE MonthOf(_, _, _)
MonthOf(day, y, m) ==
    IF day < DaysBeforeYear(y) + DaysBeforeMonth(y, m + 1) THEN m ELSE MonthOf(day, y, m + 1)

getMonth(day) == MonthOf(day, getFullYear(day), 0)

getDate(day) == day - DateOf(getFullYear(day), getMonth(day), 1) + 1

DaysPerWeek == 7

\* (variant: a month is thirty days)
calculateNextRecurringDateThirty(date, interval) ==
    CASE interval = "DAILY" -> date + 1
      [] interval = "WEEKLY" -> date + DaysPerWeek
      [] interval = "MONTHLY" -> date + 30
      [] interval = "YEARLY" -> DateOf(getFullYear(date) + 1, getMonth(date), getDate(date))
      [] OTHER -> NoDate

\* inngest/functions.ts: throws on an unknown interval (here: no date)
calculateNextRecurringDate(date, interval) ==
    CASE interval = "DAILY" -> date + 1
      [] interval = "WEEKLY" -> date + DaysPerWeek
      [] interval = "MONTHLY" -> DateOf(getFullYear(date), getMonth(date) + 1, getDate(date))
      [] interval = "YEARLY" -> DateOf(getFullYear(date) + 1, getMonth(date), getDate(date))
      [] OTHER -> NoDate

\* transaction.ts: no default branch, an unknown interval leaves the date as it is
calculateNextRecurringDateAction(startDate, interval) ==
    CASE interval = "DAILY" -> startDate + 1
      [] interval = "WEEKLY" -> startDate + DaysPerWeek
      [] interval = "MONTHLY" ->
            DateOf(getFullYear(startDate), getMonth(startDate) + 1, getDate(startDate))
      [] interval = "YEARLY" ->
            DateOf(getFullYear(startDate) + 1, getMonth(startDate), getDate(startDate))
      [] OTHER -> startDate

\* ------------------------------------------------------------------ tables
Outcome(op, status, id) == [op |-> op, status |-> status, id |-> id]

\* a function without the keys in ks (deleteMany) / with one more key (create)
Without(f, ks) == [k \in DOMAIN f \ ks |-> f[k]]
With(f, k, v) == [x \in DOMAIN f \cup {k} |-> IF x = k THEN v ELSE f[x]]

\* findUnique({ where: { id, userId } })
findAccount(acc, id, userId) == id \in DOMAIN acc /\ acc[id].userId = userId
findTransaction(txs, id, userId) == id \in DOMAIN txs /\ txs[id].userId = userId

\* the effect of a transaction on its account's balance
balanceChangeOf(type, amount) == IF type = "EXPENSE" THEN 0 - amount ELSE amount

\* signed sum of the transactions attached to account a
RECURSIVE SumOver(_, _, _)
SumOver(txs, ids, a) ==
    IF ids = {} THEN 0
    ELSE LET i == CHOOSE x \in ids : TRUE
         IN  (IF txs[i].accountId = a THEN balanceChangeOf(txs[i].type, txs[i].amount) ELSE 0)
             + SumOver(txs, ids \ {i}, a)

SignedSum(txs, a) == SumOver(txs, DOMAIN txs, a)

\* db.$transaction: every write of the callback, or none when it throws
Database(acc, txs, ok) == [acc |-> acc, txs |-> txs, ok |-> ok]

\* --------------------------------------------------------- dashboard.ts
createAccountWrites(acc, id, userId, data) ==
    LET existing == {a \in DOMAIN acc : acc[a].userId = userId}
        shouldBeDefault == IF existing = {} THEN TRUE ELSE data.isDefault
        cleared == IF shouldBeDefault
                   THEN [a \in DOMAIN acc |->
                           IF acc[a].userId = userId /\ acc[a].isDefault
                           THEN [acc[a] EXCEPT !.isDefault = FALSE] ELSE acc[a]]
                   ELSE acc
    IN  With(cleared, id, [userId |-> userId, balance |-> data.balance,
                           isDefault |-> shouldBeDefault])

createAccount(userId, data) ==
    /\ DOMAIN accounts # AccountIds
    /\ LET id == CHOOSE a \in AccountIds \ DOMAIN accounts :
                     \A b \in AccountIds \ DOMAIN accounts : a = b \/ a = "a1"
       IN  /\ accounts' = createAccountWrites(accounts, id, userId, data)
           /\ opening' = With(opening, id, data.balance)
           /\ last' = Outcome("createAccount", "ok", 0)
    /\ UNCHANGED <<now, transactions, nextTxId, events, running>>
    /\ UNCHANGED jobVars

\* --------------------------------------------------------- transaction.ts
transactionRow(userId, data) ==
    [ type |-> data.type,
      amount |-> data.amount,
      description |-> data.description,
      date |-> data.date,
      category |-> data.category,
      isRecurring |-> data.isRecurring,
      recurringInterval |-> data.recurringInterval,
      userId |-> userId,
      accountId |-> data.accountId,
      status |-> data.status,
      nextRecurringDate |->
          IF data.isRecurring /\ data.recurringInterval # NoInterval
          THEN calculateNextRecurringDateAction(data.date, data.recurringInterval)
          ELSE NoDate,
      lastProcessed |-> NoDate ]

createTransactionWrites(acc, txs, id, userId, data) ==
    LET balanceChange == balanceChangeOf(data.type, data.amount)
        newBalance == acc[data.accountId].balance + balanceChange
    IN  Database([acc EXCEPT ![data.accountId].balance = newBalance],
                 With(txs, id, transactionRow(userId, data)),
                 TRUE)

createTransaction(userId, data, denied) ==
    /\ nextTxId <= MaxTx
    /\ IF denied \/ ~findAccount(accounts, data.accountId, userId)
       THEN /\ last' = Outcome("createTransaction", "error", 0)
            /\ UNCHANGED <<accounts, transactions, nextTxId>>
       ELSE LET db == createTransactionWrites(accounts, transactions, nextTxId, userId, data)
            IN  /\ accounts' = db.acc
                /\ transactions' = db.txs
                /\ nextTxId' = nextTxId + 1
                /\ last' = Outcome("createTransaction", "ok", 0)
    /\ UNCHANGED <<now, opening, events, running>>
    /\ UNCHANGED jobVars

\* (variant: the row is rewritten and no balance is touched)
updateTransactionRowOnly(acc, txs, id, userId, data) ==
    Database(acc,
             [txs EXCEPT ![id] = [transactionRow(userId, data) EXCEPT
                                    !.lastProcessed = txs[id].lastProcessed]],
             TRUE)

\* (variant: the writes made before the callback throws stay)
updateTransactionWritesKept(acc, txs, id, userId, data) ==
    LET original == txs[id]
        balanceChange == balanceChangeOf(data.type, data.amount)
        originalBalanceChange == 0 - balanceChangeOf(original.type, original.amount)
        newBalance == acc[original.accountId].balance + balanceChange + originalBalanceChange
        updated == [txs EXCEPT ![id] = [transactionRow(userId, data) EXCEPT
                                          !.lastProcessed = original.lastProcessed]]
    IN  IF data.accountId # original.accountId
        THEN LET removed == [acc EXCEPT ![original.accountId].balance =
                                acc[original.accountId].balance + originalBalanceChange]
             IN  IF ~findAccount(removed, data.accountId, userId)
                 THEN Database(removed, updated, FALSE)
                 ELSE Database([removed EXCEPT ![data.accountId].balance =
                                   removed[data.accountId].balance + balanceChange],
                               updated, TRUE)
        ELSE Database([acc EXCEPT ![data.accountId].balance = newBalance], updated, TRUE)

updateTransactionWrites(acc, txs, id, userId, data) ==
    LET original == txs[id]
        balanceChange == balanceChangeOf(data.type, data.amount)
        originalBalanceChange == 0 - balanceChangeOf(original.type, original.amount)
        netBalanceChange == balanceChange + originalBalanceChange
        newBalance == acc[original.accountId].balance + netBalanceChange
        row == transactionRow(userId, data)
        updated == [txs EXCEPT ![id] =
                       [row EXCEPT !.lastProcessed = original.lastProcessed]]
    IN  IF data.accountId # original.accountId
        THEN LET removed == [acc EXCEPT ![original.accountId].balance =
                                acc[original.accountId].balance + originalBalanceChange]
             IN  IF ~findAccount(removed, data.accountId, userId)
                 THEN Database(acc, txs, FALSE)
                 ELSE Database([removed EXCEPT ![data.accountId].balance =
                                   removed[data.accountId].balance + balanceChange],
                               updated, TRUE)
        ELSE Database([acc EXCEPT ![data.accountId].balance = newBalance], updated, TRUE)

updateTransaction(userId, id, data) ==
    /\ IF ~findTransaction(transactions, id, userId)
       THEN /\ last' = Outcome("updateTransaction", "error", 0)
            /\ UNCHANGED <<accounts, transactions>>
       ELSE LET db == updateTransactionWrites(accounts, transactions, id, userId, data)
            IN  /\ accounts' = db.acc
                /\ transactions' = db.txs
                /\ last' = Outcome("updateTransaction", IF db.ok THEN "ok" ELSE "error", 0)
    /\ UNCHANGED <<now, opening, nextTxId, events, running>>
    /\ UNCHANGED jobVars

\* (variant: the effect of the deleted row is applied again instead of reversed)
deleteTransactionWritesReapplied(acc, txs, id) ==
    LET transaction == txs[id]
        balanceChange == balanceChangeOf(transaction.type, transaction.amount)
        newBalance == acc[transaction.accountId].balance + balanceChange
    IN  Database([acc EXCEPT ![transaction.accountId].balance = newBalance],
                 Without(txs, {id}), TRUE)

deleteTransactionWrites(acc, txs, id) ==
    LET transaction == txs[id]
        balanceChange == 0 - balanceChangeOf(transaction.type, transaction.amount)
        newBalance == acc[transaction.accountId].balance + balanceChange
    IN  Database([acc EXCEPT ![transaction.accountId].balance = newBalance],
                 Without(txs, {id}), TRUE)

deleteTransaction(userId, id) ==
    /\ IF ~findTransaction(transactions, id, userId)
       THEN /\ last' = Outcome("deleteTransaction", "error", 0)
            /\ UNCHANGED <<accounts, transactions>>
       ELSE LET db == deleteTransactionWrites(accounts, transactions, id)
            IN  /\ accounts' = db.acc
                /\ transactions' = db.txs
                /\ last' = Outcome("deleteTransaction", "ok", 0)
    /\ UNCHANGED <<now, opening, nextTxId, events, running>>
    /\ UNCHANGED jobVars

\* ------------------- transaction.ts, the read and the database transaction apart
\* a request between its findUnique and its db.$transaction: what it was called
\* with, the row it read and the balance it read
Pending(op, userId, id, data, balance) ==
    [ op |-> op, userId |-> userId, id |-> id, data |-> data, balance |-> balance ]

\* createTransaction up to the computation of newBalance
createTransactionRead(userId, data) ==
    /\ BagCardinality(calls) < MaxCalls
    /\ IF ~findAccount(accounts, data.accountId, userId)
       THEN /\ last' = Outcome("createTransaction", "error", 0)
            /\ UNCHANGED calls
       ELSE /\ calls' = calls (+) SetToBag({Pending("createTransaction", userId, 0, data,
                                                    accounts[data.accountId].balance)})
            /\ UNCHANGED last
    /\ UNCHANGED <<now, accounts, opening, transactions, nextTxId, events, running>>
    /\ UNCHANGED <<budgets, checking, alerted, reporting, hook>>

\* its db.$transaction: the row is inserted and the balance computed at the read is written
createTransactionCommit(call) ==
    /\ BagIn(call, calls)
    /\ call.op = "createTransaction"
    /\ nextTxId <= MaxTx
    /\ LET newBalance == call.balance + balanceChangeOf(call.data.type, call.data.amount)
       IN  accounts' = [accounts EXCEPT ![call.data.accountId].balance = newBalance]
    /\ transactions' = With(transactions, nextTxId, transactionRow(call.userId, call.data))
    /\ nextTxId' = nextTxId + 1
    /\ calls' = calls (-) SetToBag({call})
    /\ last' = Outcome("createTransaction", "ok", 0)
    /\ UNCHANGED <<now, opening, events, running>>
    /\ UNCHANGED <<budgets, checking, alerted, reporting, hook>>

\* deleteTransaction up to the computation of newBalance
deleteTransactionRead(userId, id) ==
    /\ BagCardinality(calls) < MaxCalls
    /\ IF ~findTransaction(transactions, id, userId)
       THEN /\ last' = Outcome("deleteTransaction", "error", 0)
            /\ UNCHANGED calls
       ELSE /\ calls' = calls (+) SetToBag({Pending("deleteTransaction", userId, id,
                                                    transactions[id],
                                                    accounts[transactions[id].accountId].balance)})
            /\ UNCHANGED last
    /\ UNCHANGED <<now, accounts, opening, transactions, nextTxId, events, running>>
    /\ UNCHANGED <<budgets, checking, alerted, reporting, hook>>

\* its db.$transaction: delete throws when the row is gone, and nothing is written
deleteTransactionCommit(call) ==
    /\ BagIn(call, calls)
    /\ call.op = "deleteTransaction"
    /\ IF call.id \notin DOMAIN transactions
       THEN /\ last' = Outcome("deleteTransaction", "error", 0)
            /\ UNCHANGED <<accounts, transactions>>
       ELSE LET newBalance == call.balance - balanceChangeOf(call.data.type, call.data.amount)
            IN  /\ accounts' = [accounts EXCEPT ![call.data.accountId].balance = newBalance]
                /\ transactions' = Without(transactions, {call.id})
                /\ last' = Outcome("deleteTransaction", "ok", 0)
    /\ calls' = calls (-) SetToBag({call})
    /\ UNCHANGED <<now, opening, nextTxId, events, running>>
    /\ UNCHANGED <<budgets, checking, alerted, reporting, hook>>

\* ------------------------------------------------------------ accounts.ts
\* (variant: the effects of the found rows are added again, not reversed)
RECURSIVE accountBalanceChangesAdded(_, _, _)
accountBalanceChangesAdded(txs, found, a) ==
    IF found = {} THEN 0
    ELSE LET i == CHOOSE x \in found : TRUE
         IN  (IF txs[i].accountId = a THEN balanceChangeOf(txs[i].type, txs[i].amount) ELSE 0)
             + accountBalanceChangesAdded(txs, found \ {i}, a)

\* accountBalanceChanges[a]: the sum of the reversed effects of the found rows on a
RECURSIVE accountBalanceChanges(_, _, _)
accountBalanceChanges(txs, found, a) ==
    IF found = {} THEN 0
    ELSE LET i == CHOOSE x \in found : TRUE
             delta == IF txs[i].type = "EXPENSE" THEN txs[i].amount ELSE 0 - txs[i].amount
         IN  (IF txs[i].accountId = a THEN delta ELSE 0)
             + accountBalanceChanges(txs, found \ {i}, a)

bulkDeleteWrites(acc, txs, found, transactionIds, userId) ==
    LET affected == {txs[i].accountId : i \in found}
        deleted == {i \in DOMAIN txs : i \in transactionIds /\ txs[i].userId = userId}
    IN  Database([a \in DOMAIN acc |->
                     IF a \in affected
                     THEN [acc[a] EXCEPT !.balance = @ + accountBalanceChanges(txs, found, a)]
                     ELSE acc[a]],
                 Without(txs, deleted), TRUE)

bulkDeleteTransaction(userId, transactionIds) ==
    /\ LET found == {i \in DOMAIN transactions :
                        i \in transactionIds /\ transactions[i].userId = userId}
       IN  IF transactionIds = {} \/ found = {}
           THEN /\ last' = Outcome("bulkDeleteTransaction", "error", 0)
                /\ UNCHANGED <<accounts, transactions>>
           ELSE LET db == bulkDeleteWrites(accounts, transactions, found,
                                           transactionIds, userId)
                IN  /\ accounts' = db.acc
                    /\ transactions' = db.txs
                    /\ last' = Outcome("bulkDeleteTransaction", "ok", Cardinality(found))
    /\ UNCHANGED <<now, opening, nextTxId, events, running>>
    /\ UNCHANGED jobVars

\* ---------------------------------------------------- inngest/functions.ts
\* (variant: due only after the day of nextRecurringDate)
isTransactionDueStrictlyAfter(lastProcessed, nextRecurringDate, today) ==
    \/ lastProcessed = NoDate
    \/ nextRecurringDate < today

\* (variant: due whenever it is looked at)
isTransactionDueAlways(lastProcessed, nextRecurringDate, today) == TRUE

\* (variant: due by the date alone)
isTransactionDueByDate(lastProcessed, nextRecurringDate, today) ==
    nextRecurringDate <= today

isTransactionDue(lastProcessed, nextRecurringDate, today) ==
    IF lastProcessed = NoDate THEN TRUE ELSE nextRecurringDate <= today

\* (variant: a row without nextRecurringDate is not skipped)
processSkipsDueOnly(txs, ev, today) ==
    \/ ~findTransaction(txs, ev.transactionId, ev.userId)
    \/ ~isTransactionDue(txs[ev.transactionId].lastProcessed,
                         txs[ev.transactionId].nextRecurringDate, today)

\* the guard of processRecurringTransaction: TRUE when the run is skipped
processSkips(txs, ev, today) ==
    \/ ~findTransaction(txs, ev.transactionId, ev.userId)
    \/ txs[ev.transactionId].nextRecurringDate = NoDate
    \/ ~isTransactionDue(txs[ev.transactionId].lastProcessed,
                         txs[ev.transactionId].nextRecurringDate, today)

\* (variant: the instance is itself marked recurring)
recurringInstanceRepeating(t, today) ==
    [ type |-> t.type,
      amount |-> t.amount,
      description |-> t.description \o " (Recurring)",
      date |-> today,
      category |-> t.category,
      isRecurring |-> TRUE,
      recurringInterval |-> t.recurringInterval,
      userId |-> t.userId,
      accountId |-> t.accountId,
      status |-> "COMPLETED",
      nextRecurringDate |-> NoDate,
      lastProcessed |-> NoDate ]

\* (variant: the instance is a copy of the recurring row)
recurringInstanceCopy(t, today) ==
    [t EXCEPT !.description = t.description \o " (Recurring)", !.date = today]

recurringInstance(t, today) ==
    [ type |-> t.type,
      amount |-> t.amount,
      description |-> t.description \o " (Recurring)",
      date |-> today,
      category |-> t.category,
      isRecurring |-> FALSE,
      recurringInterval |-> NoInterval,
      userId |-> t.userId,
      accountId |-> t.accountId,
      status |-> "COMPLETED",
      nextRecurringDate |-> NoDate,
      lastProcessed |-> NoDate ]

\* The callback of db.$transaction in processRecurringTransaction, for the row t read
\* before it: the tables as its writes leave them when it returns (ok) or throws.
\* failAt = k makes the k-th write throw (0: the database does not fail); the
\* third write also throws when the row is gone or its interval is unknown.
processCallback(acc, txs, newId, id, t, today, failAt) ==
    LET txs1 == With(txs, newId, recurringInstance(t, today))
        acc2 == [acc EXCEPT ![t.accountId].balance = @ + balanceChangeOf(t.type, t.amount)]
        next == calculateNextRecurringDate(today, t.recurringInterval)
        throws3 == failAt = 3 \/ next = NoDate \/ id \notin DOMAIN txs
    IN  IF failAt = 1 THEN Database(acc, txs, FALSE)
        ELSE IF failAt = 2 THEN Database(acc, txs1, FALSE)
        ELSE IF throws3 THEN Database(acc2, txs1, FALSE)
        ELSE Database(acc2,
                      [txs1 EXCEPT ![id].lastProcessed = today,
                                   ![id].nextRecurringDate = next],
                      TRUE)

\* (variant: the three writes issued outside a database transaction)
processWritesUnwrapped(acc, txs, newId, id, t, today, failAt) ==
    processCallback(acc, txs, newId, id, t, today, failAt)

\* (variant: the writes are applied only if lastProcessed is still as it was read)
processWritesRechecked(acc, txs, newId, id, t, today, failAt) ==
    LET done == processCallback(acc, txs, newId, id, t, today, failAt)
    IN  IF id \in DOMAIN txs /\ txs[id].lastProcessed # t.lastProcessed
        THEN Database(acc, txs, TRUE)
        ELSE IF done.ok THEN done ELSE Database(acc, txs, FALSE)

\* db.$transaction(callback): the callback's writes, or none of them when it throws
processWrites(acc, txs, newId, id, t, today, failAt) ==
    LET done == processCallback(acc, txs, newId, id, t, today, failAt)
    IN  IF done.ok THEN done ELSE Database(acc, txs, FALSE)

\* the event is taken from the queue and the row is read
processStart(ev) ==
    /\ BagIn(ev, events)
    /\ events' = events (-) SetToBag({ev})
    /\ IF processSkips(transactions, ev, now)
       THEN /\ last' = Outcome("process", "skipped", ev.transactionId)
            /\ UNCHANGED running
       ELSE /\ running' = running (+) SetToBag({[ev |-> ev,
                                                 row |-> transactions[ev.transactionId]]})
            /\ UNCHANGED last
    /\ UNCHANGED <<now, accounts, opening, transactions, nextTxId>>
    /\ UNCHANGED jobVars

\* (variant: a run that throws stops the queue)
processCommitHalting(run, failAt, retry) ==
    /\ BagIn(run, running)
    /\ nextTxId <= MaxTx
    /\ LET ev == run.ev
           db == processWrites(accounts, transactions, nextTxId, ev.transactionId,
                               run.row, now, failAt)
       IN  /\ accounts' = db.acc
           /\ transactions' = db.txs
           /\ nextTxId' = IF db.ok THEN nextTxId + 1 ELSE nextTxId
           /\ last' = Outcome("process", IF db.ok THEN "processed" ELSE "failed",
                              ev.transactionId)
           /\ events' = IF db.ok THEN events ELSE EmptyBag
    /\ running' = running (-) SetToBag({run})
    /\ UNCHANGED <<now, opening>>
    /\ UNCHANGED jobVars

\* the database transaction of the run; a run that throws is retried by the
\* queue (the event is delivered again) until its retries are used up
processCommit(run, failAt, retry) ==
    /\ BagIn(run, running)
    /\ nextTxId <= MaxTx
    /\ LET ev == run.ev
           db == processWrites(accounts, transactions, nextTxId, ev.transactionId,
                               run.row, now, failAt)
       IN  /\ accounts' = db.acc
           /\ transactions' = db.txs
           /\ nextTxId' = IF db.ok THEN nextTxId + 1 ELSE nextTxId
           /\ last' = Outcome("process", IF db.ok THEN "processed" ELSE "failed",
                              ev.transactionId)
           /\ events' = IF ~db.ok /\ retry THEN events (+) SetToBag({ev}) ELSE events
    /\ running' = running (-) SetToBag({run})
    /\ UNCHANGED <<now, opening>>
    /\ UNCHANGED jobVars

\* (variant: the status of the row is not looked at)
dueRecurringAnyStatus(txs, today) ==
    {i \in DOMAIN txs :
        /\ txs[i].isRecurring
        /\ \/ txs[i].lastProcessed = NoDate
           \/ (txs[i].nextRecurringDate # NoDate /\ txs[i].nextRecurringDate <= today)}

\* (variant: a row is selected by its date alone)
dueRecurringByDate(txs, today) ==
    {i \in DOMAIN txs :
        /\ txs[i].isRecurring
        /\ txs[i].status = "COMPLETED"
        /\ txs[i].nextRecurringDate # NoDate /\ txs[i].nextRecurringDate <= today}

\* the rows the daily trigger selects
dueRecurring(txs, today) ==
    {i \in DOMAIN txs :
        /\ txs[i].isRecurring
        /\ txs[i].status = "COMPLETED"
        /\ \/ txs[i].lastProcessed = NoDate
           \/ (txs[i].nextRecurringDate # NoDate /\ txs[i].nextRecurringDate <= today)}

eventsFor(txs, ids) ==
    SetToBag({[transactionId |-> i, userId |-> txs[i].userId] : i \in ids})

triggerRecurringTransactions ==
    LET recurringTransactions == dueRecurring(transactions, now)
    IN  /\ BagCardinality(events) + BagCardinality(running)
              + Cardinality(recurringTransactions) <= MaxEvents
        /\ events' = events (+) eventsFor(transactions, recurringTransactions)
        /\ last' = Outcome("trigger", "ok", Cardinality(recurringTransactions))
        /\ UNCHANGED <<now, accounts, opening, transactions, nextTxId, running>>
        /\ UNCHANGED jobVars

\* a day passes
Tick ==
    /\ now < MaxNow
    /\ now' = now + 1
    /\ UNCHANGED <<accounts, opening, transactions, nextTxId, events, running, last>>
    /\ UNCHANGED jobVars

\* ------------------------------- account requests, one round trip at a time
\* a request in progress: what it was called with and what it has read and done so far
Call(op, userId, accountId, balance, shouldBeDefault, cleared) ==
    [ op |-> op, userId |-> userId, accountId |-> accountId, balance |-> balance,
      shouldBeDefault |-> shouldBeDefault, cleared |-> cleared ]

\* updateMany({ where: { userId, isDefault: true }, data: { isDefault: false } })
clearDefault(acc, userId) ==
    [a \in DOMAIN acc |->
        IF acc[a].userId = userId /\ acc[a].isDefault
        THEN [acc[a] EXCEPT !.isDefault = FALSE] ELSE acc[a]]

\* createAccount, first round trip: findMany of the user's accounts, and the decision
createAccountFind(userId, data) ==
    /\ BagCardinality(calls) < MaxCalls
    /\ LET existingAccount == {a \in DOMAIN accounts : accounts[a].userId = userId}
           shouldBeDefault == IF existingAccount = {} THEN TRUE ELSE data.isDefault
       IN  calls' = calls (+) SetToBag({Call("createAccount", userId, "none", data.balance,
                                             shouldBeDefault, FALSE)})
    /\ UNCHANGED <<now, accounts, opening, transactions, nextTxId, events, running, last>>
    /\ UNCHANGED <<budgets, checking, alerted, reporting, hook>>

\* createAccount, second round trip: the user's default accounts lose the flag
createAccountClear(call) ==
    /\ BagIn(call, calls)
    /\ call.op = "createAccount" /\ call.shouldBeDefault /\ ~call.cleared
    /\ accounts' = clearDefault(accounts, call.userId)
    /\ calls' = (calls (-) SetToBag({call})) (+) SetToBag({[call EXCEPT !.cleared = TRUE]})
    /\ UNCHANGED <<now, opening, transactions, nextTxId, events, running, last>>
    /\ UNCHANGED <<budgets, checking, alerted, reporting, hook>>

\* createAccount, last round trip: the account is inserted with the flag decided at first
createAccountInsert(call) ==
    /\ BagIn(call, calls)
    /\ call.op = "createAccount" /\ (call.shouldBeDefault => call.cleared)
    /\ DOMAIN accounts # AccountIds
    /\ LET id == CHOOSE a \in AccountIds \ DOMAIN accounts :
                     \A b \in AccountIds \ DOMAIN accounts : a = b \/ a = "a1"
       IN  /\ accounts' = With(accounts, id, [userId |-> call.userId, balance |-> call.balance,
                                              isDefault |-> call.shouldBeDefault])
           /\ opening' = With(opening, id, call.balance)
    /\ calls' = calls (-) SetToBag({call})
    /\ last' = Outcome("createAccount", "ok", 0)
    /\ UNCHANGED <<now, transactions, nextTxId, events, running>>
    /\ UNCHANGED <<budgets, checking, alerted, reporting, hook>>

\* updateDefaultAccount without a database transaction (accounts.ts:33), first write
updateDefaultAccountClear(userId, accountId) ==
    /\ BagCardinality(calls) < MaxCalls
    /\ accounts' = clearDefault(accounts, userId)
    /\ calls' = calls (+) SetToBag({Call("updateDefaultAccount", userId, accountId, 0, TRUE, TRUE)})
    /\ UNCHANGED <<now, opening, transactions, nextTxId, events, running, last>>
    /\ UNCHANGED <<budgets, checking, alerted, reporting, hook>>

\* second write: update({ where: { id, userId } }) throws when there is no such row,
\* and the error is returned with the flags already cleared
updateDefaultAccountSet(call) ==
    /\ BagIn(call, calls)
    /\ call.op = "updateDefaultAccount"
    /\ IF findAccount(accounts, call.accountId, call.userId)
       THEN /\ accounts' = [accounts EXCEPT ![call.accountId].isDefault = TRUE]
            /\ last' = Outcome("updateDefaultAccount", "ok", 0)
       ELSE /\ UNCHANGED accounts
            /\ last' = Outcome("updateDefaultAccount", "error", 0)
    /\ calls' = calls (-) SetToBag({call})
    /\ UNCHANGED <<now, opening, transactions, nextTxId, events, running>>
    /\ UNCHANGED <<budgets, checking, alerted, reporting, hook>>

\* updateDefaultAccount with both writes in one db.$transaction (accounts.ts:364),
\* taken as one step
updateDefaultAccount(userId, accountId) ==
    /\ IF findAccount(accounts, accountId, userId)
       THEN /\ accounts' = [clearDefault(accounts, userId) EXCEPT ![accountId].isDefault = TRUE]
            /\ last' = Outcome("updateDefaultAccount", "ok", 0)
       ELSE /\ UNCHANGED accounts
            /\ last' = Outcome("updateDefaultAccount", "error", 0)
    /\ UNCHANGED <<now, opening, transactions, nextTxId, events, running>>
    /\ UNCHANGED jobVars

\* ------------------------------------------- budgets (seed.ts, functions.ts)
\* db.budget.upsert({ where: { userId }, update: { amount }, create: { userId, amount } })
updateBudget(userId, amount) ==
    /\ budgets' = IF userId \in DOMAIN budgets
                  THEN [budgets EXCEPT ![userId].amount = amount]
                  ELSE With(budgets, userId, [amount |-> amount, lastAlertSent |-> NoDate])
    /\ last' = Outcome("updateBudget", "ok", 0)
    /\ UNCHANGED <<now, accounts, opening, transactions, nextTxId, events, running>>
    /\ UNCHANGED <<checking, alerted, reporting, calls, hook>>

isNewMonth(lastAlertDate, currentDate) ==
    \/ lastAlertDate = NoDate
    \/ getFullYear(lastAlertDate) # getFullYear(currentDate)
    \/ getMonth(lastAlertDate) # getMonth(currentDate)

RECURSIVE SumAmounts(_, _)
SumAmounts(txs, ids) ==
    IF ids = {} THEN 0
    ELSE LET i == CHOOSE x \in ids : TRUE
         IN  txs[i].amount + SumAmounts(txs, ids \ {i})

\* db.transaction.aggregate: the user's expenses on the account dated in the month of today
totalExpensesOf(txs, userId, accountId, today) ==
    LET startOfMonth == DateOf(getFullYear(today), getMonth(today), 1)
        endOfMonth == DateOf(getFullYear(today), getMonth(today) + 1, 0)
    IN  SumAmounts(txs, {i \in DOMAIN txs :
                            /\ txs[i].userId = userId
                            /\ txs[i].accountId = accountId
                            /\ txs[i].type = "EXPENSE"
                            /\ txs[i].date >= startOfMonth
                            /\ txs[i].date <= endOfMonth})

AlertThreshold == 80

\* (totalExpenses / budgetAmount) * 100 >= 80, in floating point: x / 0 is Infinity,
\* 0 / 0 is NaN and compares false
percentageReached(totalExpenses, budgetAmount) ==
    IF budgetAmount > 0 THEN totalExpenses * 100 >= AlertThreshold * budgetAmount
    ELSE IF budgetAmount = 0 THEN totalExpenses > 0
    ELSE totalExpenses * 100 <= AlertThreshold * budgetAmount

\* (variant: the month is looked at only once an alert has been sent)
alertConditionThreshold(totalExpenses, budgetAmount, lastAlertSent, today) ==
    \/ percentageReached(totalExpenses, budgetAmount) /\ lastAlertSent = NoDate
    \/ lastAlertSent # NoDate /\ isNewMonth(lastAlertSent, today)

\* the condition under which checkBudgetAlert sends the email
alertCondition(totalExpenses, budgetAmount, lastAlertSent, today) ==
    \/ percentageReached(totalExpenses, budgetAmount) /\ lastAlertSent = NoDate
    \/ isNewMonth(lastAlertSent, today)

\* the orders in which findMany can return the rows of S
Orders(S) ==
    {order \in [1..Cardinality(S) -> S] : \A i, j \in DOMAIN order : order[i] = order[j] => i = j}

\* step "fetch-budget": the budgets with their users' default accounts
fetchedBudget(userId) ==
    [ userId |-> userId,
      amount |-> budgets[userId].amount,
      lastAlertSent |-> budgets[userId].lastAlertSent,
      accounts |-> {a \in DOMAIN accounts : accounts[a].userId = userId /\ accounts[a].isDefault} ]

fetchBudgets(order, fails) ==
    /\ checking = << >>
    /\ IF fails
       THEN /\ last' = Outcome("checkBudgetAlert", "thrown", 0)
            /\ UNCHANGED checking
       ELSE /\ checking' = [i \in DOMAIN order |-> fetchedBudget(order[i])]
            /\ last' = IF order = << >> THEN Outcome("checkBudgetAlert", "completed", 0)
                       ELSE Outcome("checkBudgetAlert", "fetched", 0)
    /\ UNCHANGED <<now, accounts, opening, transactions, nextTxId, events, running>>
    /\ UNCHANGED <<budgets, alerted, reporting, calls, hook>>

\* what the check of one fetched budget comes to: the expense query throws ("error"),
\* the condition does not hold ("none"), sendEmail returns { success: false }
\* ("failed") or throws ("emailError"), the update of lastAlertSent throws after the
\* email went out ("unrecorded"), or the email went out and the date was written ("sent")
budgetOutcome(prismaBudget, totalExpenses, today, queryFails, emailResult, updateFails) ==
    IF queryFails THEN "error"
    ELSE IF ~alertCondition(totalExpenses, prismaBudget.amount, prismaBudget.lastAlertSent, today)
    THEN "none"
    ELSE IF emailResult = "failure" THEN "failed"
    ELSE IF emailResult = "thrown" THEN "emailError"
    ELSE IF updateFails THEN "unrecorded"
    ELSE "sent"

\* (variant: an error in the check of one budget ends the loop)
remainingBudgetsAborted(queue, status) ==
    IF status \in {"error", "failed", "emailError", "unrecorded"} THEN << >> ELSE Tail(queue)

\* the budgets the loop goes on to after the check of the first one
remainingBudgets(queue, status) == Tail(queue)

\* one pass of the loop over the fetched budgets: step "check-budget-<id>"
checkBudget(queryFails, emailResult, updateFails) ==
    /\ checking # << >>
    /\ LET prismaBudget == Head(checking)
           userId == prismaBudget.userId
       IN  IF prismaBudget.accounts = {}
           THEN /\ checking' = Tail(checking)
                /\ last' = Outcome("checkBudget", "skipped", 0)
                /\ UNCHANGED <<budgets, alerted>>
           ELSE \E defaultAccount \in prismaBudget.accounts :
                   LET totalExpenses == totalExpensesOf(transactions, userId, defaultAccount, now)
                       status == budgetOutcome(prismaBudget, totalExpenses, now,
                                               queryFails, emailResult, updateFails)
                   IN  /\ checking' = remainingBudgets(checking, status)
                       /\ budgets' = IF status = "sent"
                                     THEN [budgets EXCEPT ![userId].lastAlertSent = now]
                                     ELSE budgets
                       /\ alerted' = IF status \in {"sent", "unrecorded"}
                                     THEN [alerted EXCEPT ![userId] = now]
                                     ELSE alerted
                       /\ last' = Outcome("checkBudget", status, 0)
    /\ UNCHANGED <<now, accounts, opening, transactions, nextTxId, events, running>>
    /\ UNCHANGED <<reporting, calls, hook>>

\* ------------------------------------------- monthly reports (functions.ts)
\* lastMonth.setMonth(lastMonth.getMonth() - 1): the day of the month is kept, and a
\* day the earlier month does not have runs over into the month after it
lastMonthOf(today) ==
    LET y == IF getMonth(today) = 0 THEN getFullYear(today) - 1 ELSE getFullYear(today)
        m == IF getMonth(today) = 0 THEN 11 ELSE getMonth(today) - 1
    IN  IF getDate(today) > DaysInMonth(y, m)
        THEN [year |-> getFullYear(today), month |-> getMonth(today)]
        ELSE [year |-> y, month |-> m]

\* the user's transactions dated from the first to the last day of the month
getMonthlyStats(txs, userId, month) ==
    LET rows == {i \in DOMAIN txs :
                    /\ txs[i].userId = userId
                    /\ txs[i].date >= 0
                    /\ getFullYear(txs[i].date) = month.year
                    /\ getMonth(txs[i].date) = month.month}
    IN  [ totalExpenses |-> SumAmounts(txs, {i \in rows : txs[i].type = "EXPENSE"}),
          totalIncome |-> SumAmounts(txs, {i \in rows : txs[i].type # "EXPENSE"}),
          transactionCount |-> Cardinality(rows) ]

\* step "fetch-users"
fetchUsers(order, fails) ==
    /\ reporting = << >>
    /\ IF fails
       THEN /\ last' = Outcome("generateMonthlyReports", "thrown", 0)
            /\ UNCHANGED reporting
       ELSE /\ reporting' = order
            /\ last' = Outcome("generateMonthlyReports", "fetched", Len(order))
    /\ UNCHANGED <<now, accounts, opening, transactions, nextTxId, events, running>>
    /\ UNCHANGED <<budgets, checking, alerted, calls, hook>>

\* step "generate-report-<id>" for the first user not yet served. A step that throws
\* is run again by the scheduler; when its attempts are exhausted the exception
\* reaches the function, which does not catch it, and the run ends.
generateReport(statsFail, emailResult, exhausted) ==
    /\ reporting # << >>
    /\ LET prismaUser == Head(reporting)
           stats == getMonthlyStats(transactions, prismaUser, lastMonthOf(now))
       IN  IF statsFail
           THEN IF exhausted
                THEN /\ reporting' = << >>
                     /\ last' = Outcome("generateMonthlyReports", "thrown", 0)
                ELSE /\ UNCHANGED reporting
                     /\ last' = Outcome("generateReport", "retry", 0)
           ELSE /\ reporting' = Tail(reporting)
                /\ last' = Outcome("generateReport",
                                   IF emailResult = "success" THEN "sent" ELSE "unsent",
                                   stats.transactionCount)
    /\ UNCHANGED <<now, accounts, opening, transactions, nextTxId, events, running>>
    /\ UNCHANGED <<budgets, checking, alerted, calls, hook>>

\* ------------------------------------------------- the session (Clerk auth())
NoUser == "none"

Sessions == Users \cup {NoUser}

\* throw new Error("Unauthorized") (or "User not found") before any query
unauthorized(op) ==
    /\ last' = Outcome(op, "unauthorized", 0)
    /\ UNCHANGED <<now, accounts, opening, transactions, nextTxId, events, running>>
    /\ UNCHANGED jobVars

\* const { userId } = await auth(); if (!userId) throw ...; then the handler as userId
Authenticated(session, op, handler) ==
    IF session = NoUser THEN unauthorized(op) ELSE handler

\* getTransaction of transaction.ts: the exception of the missing session is caught
\* by the handler's own catch, which returns null
getTransaction(session, id) ==
    /\ last' = IF session # NoUser /\ findTransaction(transactions, id, session)
               THEN Outcome("getTransaction", "found", id)
               ELSE Outcome("getTransaction", "null", 0)
    /\ UNCHANGED <<now, accounts, opening, transactions, nextTxId, events, running>>
    /\ UNCHANGED jobVars

\* getTransaction of seed.ts: findUnique({ where: { id } }), the session is not read
seedGetTransaction(session, id) ==
    /\ last' = IF id \in DOMAIN transactions
               THEN Outcome("seedGetTransaction", "found", id)
               ELSE Outcome("seedGetTransaction", "null", 0)
    /\ UNCHANGED <<now, accounts, opening, transactions, nextTxId, events, running>>
    /\ UNCHANGED jobVars

\* updateTransaction of seed.ts: one update of the row found by id and user, with the
\* submitted data spread into it; the account named in the data is not looked up
\* (the update throws when there is no such row or, by the foreign key, no such
\* account) and no balance is written
seedUpdateTransaction(userId, id, data) ==
    /\ IF findTransaction(transactions, id, userId) /\ data.accountId \in DOMAIN accounts
       THEN /\ transactions' =
                 [transactions EXCEPT ![id] =
                     [transactionRow(userId, data) EXCEPT
                         !.lastProcessed = transactions[id].lastProcessed]]
            /\ last' = Outcome("seedUpdateTransaction", "ok", 0)
       ELSE /\ last' = Outcome("seedUpdateTransaction", "error", 0)
            /\ UNCHANGED transactions
    /\ UNCHANGED <<now, accounts, opening, nextTxId, events, running>>
    /\ UNCHANGED jobVars

\* getAccountBalance: null without a session or without such an account of the user
getAccountBalance(session, accountId) ==
    /\ last' = IF session # NoUser /\ findAccount(accounts, accountId, session)
               THEN Outcome("getAccountBalance", "found", accounts[accountId].balance)
               ELSE Outcome("getAccountBalance", "null", 0)
    /\ UNCHANGED <<now, accounts, opening, transactions, nextTxId, events, running>>
    /\ UNCHANGED jobVars

\* the days between two looks at the budgets
Advance(days) ==
    /\ now + days <= MaxDay
    /\ now' = now + days
    /\ UNCHANGED <<accounts, opening, transactions, nextTxId, events, running, last>>
    /\ UNCHANGED jobVars

\* ------------------------------------------------------ hooks/use-fetch.ts
\* data before any answer: null, written as an answer of no call
NoData == [success |-> FALSE, id |-> "null"]
NoError == "null"
FetchArgs == {"a1", "a2"}
\* what cb resolves with for an argument: the server action's answer
Responses(arg) == {[success |-> ok, id |-> arg] : ok \in BOOLEAN}
\* what cb rejects with: an Error, or a value that is not one
Rejections == {"Unauthorized", "not an Error"}

\* useState(null), useState(false), useState(null); no call of fn yet
useFetch == [data |-> NoData, loading |-> FALSE, error |-> NoError, inFlight |-> EmptyBag]

\* fn up to its await: setLoading(true), setError(null), cb(...args) is called
fn(arg) ==
    /\ BagCardinality(hook.inFlight) < MaxInFlight
    /\ hook' = [hook EXCEPT !.loading = TRUE, !.error = NoError,
                            !.inFlight = @ (+) SetToBag({arg})]
    /\ last' = Outcome("fn", "called", 0)
    /\ UNCHANGED <<now, accounts, opening, transactions, nextTxId, events, running>>
    /\ UNCHANGED <<budgets, checking, alerted, reporting, calls>>

\* the promise of one call resolves: setData(response), then finally setLoading(false)
fnResolved(arg, response) ==
    /\ BagIn(arg, hook.inFlight)
    /\ hook' = [hook EXCEPT !.data = response, !.loading = FALSE,
                            !.inFlight = @ (-) SetToBag({arg})]
    /\ last' = Outcome("fn", "resolved", 0)
    /\ UNCHANGED <<now, accounts, opening, transactions, nextTxId, events, running>>
    /\ UNCHANGED <<budgets, checking, alerted, reporting, calls>>

\* the promise of one call rejects: setError(err instanceof Error ? err : new
\* Error("Unknown error")), then finally setLoading(false)
fnRejected(arg, err) ==
    /\ BagIn(arg, hook.inFlight)
    /\ hook' = [hook EXCEPT !.error = IF err = "not an Error" THEN "Unknown error" ELSE err,
                            !.loading = FALSE,
                            !.inFlight = @ (-) SetToBag({arg})]
    /\ last' = Outcome("fn", "rejected", 0)
    /\ UNCHANGED <<now, accounts, opening, transactions, nextTxId, events, running>>
    /\ UNCHANGED <<budgets, checking, alerted, reporting, calls>>

\* the setter the hook hands out
setData(value) ==
    /\ hook' = [hook EXCEPT !.data = value]
    /\ last' = Outcome("setData", "ok", 0)
    /\ UNCHANGED <<now, accounts, opening, transactions, nextTxId, events, running>>
    /\ UNCHANGED <<budgets, checking, alerted, reporting, calls>>

\* -------------------------------------------------------------- behaviours
Init ==
    /\ now = 0
    /\ accounts = << >>
    /\ opening = << >>
    /\ transactions = << >>
    /\ nextTxId = 1
    /\ events = EmptyBag
    /\ running = EmptyBag
    /\ last = Outcome("none", "ok", 0)
    /\ budgets = << >>
    /\ checking = << >>
    /\ alerted = [u \in Users |-> NoDate]
    /\ reporting = << >>
    /\ calls = EmptyBag
    /\ hook = useFetch

\* what the users submit: accounts, and transactions that recur daily or weekly,
\* recur without an interval, wait as PENDING, or do not recur
Submission(type, amount, accountId, isRecurring, recurringInterval, status) ==
    [ type |-> type, amount |-> amount, description |-> "rent", category |-> "housing",
      date |-> 0, isRecurring |-> isRecurring, recurringInterval |-> recurringInterval,
      accountId |-> accountId, status |-> status ]

RecurringInputs ==
    { Submission("INCOME", 30, "a1", TRUE, "DAILY", "COMPLETED"),
      Submission("EXPENSE", 50, "a2", TRUE, "WEEKLY", "COMPLETED"),
      Submission("EXPENSE", 50, "a1", TRUE, NoInterval, "COMPLETED"),
      Submission("INCOME", 30, "a1", TRUE, "DAILY", "PENDING") }

EditInputs == { Submission("INCOME", 30, "a1", TRUE, "DAILY", "COMPLETED") }

LedgerInputs ==
    { Submission("INCOME", 50, a, FALSE, NoInterval, "COMPLETED") : a \in AccountIds }
    \cup { Submission("EXPENSE", 30, a, FALSE, NoInterval, "COMPLETED") : a \in AccountIds }

\* the clock, the daily trigger and the processor runs it starts
Background ==
    \/ triggerRecurringTransactions
    \/ \E ev \in BagToSet(events) : processStart(ev)
    \/ \E run \in BagToSet(running), failAt \in 0..3, retry \in BOOLEAN :
          processCommit(run, failAt, retry)
    \/ Tick

\* one user's recurring transactions and the background functions
Next ==
    \/ \E data \in [balance : {100}, isDefault : {FALSE}] : createAccount("u1", data)
    \/ \E data \in RecurringInputs : createTransaction("u1", data, FALSE)
    \/ \E id \in TxIds : deleteTransaction("u1", id)
    \/ Background

Spec == Init /\ [][Next]_vars

\* the same, with the user editing the recurring transactions
NextEdit ==
    \/ Next
    \/ \E id \in TxIds, data \in EditInputs : updateTransaction("u1", id, data)

SpecEdit == Init /\ [][NextEdit]_vars

\* the requests of two users, one at a time, without the background functions
NextLedger ==
    \/ \E u \in Users, data \in [balance : {0, 100}, isDefault : {FALSE}] :
          createAccount(u, data)
    \/ \E u \in Users, data \in LedgerInputs, denied \in BOOLEAN :
          createTransaction(u, data, denied)
    \/ \E u \in Users, id \in TxIds, data \in LedgerInputs : updateTransaction(u, id, data)
    \/ \E u \in Users, id \in TxIds : deleteTransaction(u, id)
    \/ \E u \in Users, ids \in SUBSET TxIds : bulkDeleteTransaction(u, ids)

SpecLedger == Init /\ [][NextLedger]_vars

\* two users with a budget each, the expenses of the day on the first account, and the
\* budget checker
\* every twenty days: 1 January, 21 January and 10 February 2024
BudgetAmounts == {100}

ExpenseAmounts == {90}

AdvanceDays == {20}

EmailResults == {"success", "failure", "thrown"}

NextBudget ==
    \/ \E u \in Users, data \in [balance : {100}, isDefault : {FALSE}] : createAccount(u, data)
    \/ \E u \in Users, amount \in ExpenseAmounts :
          createTransaction(u, [Submission("EXPENSE", amount, "a1", FALSE, NoInterval, "COMPLETED")
                                  EXCEPT !.date = now], FALSE)
    \/ \E u \in Users, amount \in BudgetAmounts : updateBudget(u, amount)
    \/ \E order \in Orders(DOMAIN budgets), fails \in BOOLEAN : fetchBudgets(order, fails)
    \/ \E queryFails \in BOOLEAN, emailResult \in EmailResults, updateFails \in BOOLEAN :
          checkBudget(queryFails, emailResult, updateFails)
    \/ \E days \in AdvanceDays : Advance(days)

SpecBudget == Init /\ [][NextBudget]_vars

\* two users, their expenses of the day, and the monthly report job
NextReport ==
    \/ \E u \in Users, data \in [balance : {100}, isDefault : {FALSE}] : createAccount(u, data)
    \/ \E u \in Users, amount \in ExpenseAmounts :
          createTransaction(u, [Submission("EXPENSE", amount, "a1", FALSE, NoInterval, "COMPLETED")
                                  EXCEPT !.date = now], FALSE)
    \/ \E order \in Orders(Users), fails \in BOOLEAN : fetchUsers(order, fails)
    \/ \E statsFail \in BOOLEAN, emailResult \in {"success", "failure"}, exhausted \in BOOLEAN :
          generateReport(statsFail, emailResult, exhausted)
    \/ \E days \in AdvanceDays : Advance(days)

SpecReport == Init /\ [][NextReport]_vars

\* the account requests of two users, their round trips interleaved
NextAccounts ==
    \/ \E u \in Users, data \in [balance : {100}, isDefault : BOOLEAN] : createAccountFind(u, data)
    \/ \E call \in BagToSet(calls) : createAccountClear(call)
    \/ \E call \in BagToSet(calls) : createAccountInsert(call)
    \/ \E u \in Users, a \in AccountIds : updateDefaultAccountClear(u, a)
    \/ \E call \in BagToSet(calls) : updateDefaultAccountSet(call)
    \/ \E u \in Users, a \in AccountIds : updateDefaultAccount(u, a)

SpecAccounts == Init /\ [][NextAccounts]_vars

\* the requests that arrive with the given session
AuthInputs == { Submission("EXPENSE", 30, "a1", FALSE, NoInterval, "COMPLETED") }

Requests(session) ==
    \/ \E data \in AuthInputs :
          Authenticated(session, "createTransaction", createTransaction(session, data, FALSE))
    \/ \E id \in TxIds, data \in AuthInputs :
          Authenticated(session, "updateTransaction", updateTransaction(session, id, data))
    \/ \E id \in TxIds : Authenticated(session, "deleteTransaction", deleteTransaction(session, id))
    \/ \E id \in TxIds : getTransaction(session, id)
    \/ \E id \in TxIds : seedGetTransaction(session, id)
    \/ \E ids \in SUBSET TxIds :
          Authenticated(session, "bulkDeleteTransaction", bulkDeleteTransaction(session, ids))
    \/ \E a \in AccountIds :
          Authenticated(session, "updateDefaultAccount", updateDefaultAccount(session, a))
    \/ \E data \in [balance : {100}, isDefault : {FALSE}] :
          Authenticated(session, "createAccount", createAccount(session, data))
    \/ \E a \in AccountIds : getAccountBalance(session, a)
    \/ \E amount \in BudgetAmounts : Authenticated(session, "updateBudget", updateBudget(session, amount))

\* requests of two users and requests without a session, one at a time
NextAuth == \E session \in Sessions : Requests(session)

SpecAuth == Init /\ [][NextAuth]_vars

\* recurring transactions submitted with a known tag, with a tag outside the four
\* and without a tag; the insert of a row may be refused
UnknownIntervals == {"HOURLY"}

IntervalInputs ==
    { Submission("EXPENSE", 30, "a1", TRUE, interval, "COMPLETED") :
         interval \in {"DAILY", "MONTHLY", NoInterval} \cup UnknownIntervals }

NextInterval ==
    \/ \E data \in [balance : {100}, isDefault : {FALSE}] : createAccount("u1", data)
    \/ \E data \in IntervalInputs, denied \in BOOLEAN :
          createTransaction("u1", [data EXCEPT !.date = now], denied)
    \/ \E id \in TxIds, data \in IntervalInputs :
          updateTransaction("u1", id, [data EXCEPT !.date = now])
    \/ \E id \in TxIds : deleteTransaction("u1", id)
    \/ Tick

SpecInterval == Init /\ [][NextInterval]_vars

\* any day from 1 January 2024 to 4 February 2025 as today: one recurring transaction
\* of any of the four intervals dated today, and the processor on it, without failures
InitCalendar ==
    /\ now \in 0..MaxDate
    /\ accounts = << >>
    /\ opening = << >>
    /\ transactions = << >>
    /\ nextTxId = 1
    /\ events = EmptyBag
    /\ running = EmptyBag
    /\ last = Outcome("none", "ok", 0)
    /\ budgets = << >>
    /\ checking = << >>
    /\ alerted = [u \in Users |-> NoDate]
    /\ reporting = << >>
    /\ calls = EmptyBag
    /\ hook = useFetch

CalendarInputs ==
    { Submission("INCOME", 30, "a1", TRUE, interval, "COMPLETED") : interval \in Intervals }

NextCalendar ==
    \/ \E data \in [balance : {100}, isDefault : {FALSE}] : createAccount("u1", data)
    \/ /\ DOMAIN transactions = {}
       /\ \E data \in CalendarInputs : createTransaction("u1", [data EXCEPT !.date = now], FALSE)
    \/ triggerRecurringTransactions
    \/ \E ev \in BagToSet(events) : processStart(ev)
    \/ \E run \in BagToSet(running) : processCommit(run, 0, FALSE)

SpecCalendar == InitCalendar /\ [][NextCalendar]_vars

\* one user's requests on one account, overlapping
RaceInputs ==
    { Submission("INCOME", 50, "a1", FALSE, NoInterval, "COMPLETED"),
      Submission("EXPENSE", 30, "a1", FALSE, NoInterval, "COMPLETED") }

NextRace ==
    \/ \E data \in [balance : {100}, isDefault : {FALSE}] : createAccount("u1", data)
    \/ \E data \in RaceInputs : createTransactionRead("u1", data)
    \/ \E call \in BagToSet(calls) : createTransactionCommit(call)
    \/ \E id \in TxIds : deleteTransactionRead("u1", id)
    \/ \E call \in BagToSet(calls) : deleteTransactionCommit(call)

SpecRace == Init /\ [][NextRace]_vars

\* one recurring transaction, the trigger and the processor, scheduled fairly: the
\* trigger keeps running (cron), a queued event is delivered, and a run whose
\* database transaction is attempted again and again commits at one of the attempts
FairInputs ==
    { Submission("INCOME", 30, "a1", TRUE, "DAILY", "COMPLETED"),
      Submission("EXPENSE", 50, "a1", TRUE, "WEEKLY", "COMPLETED"),
      Submission("EXPENSE", 50, "a1", TRUE, NoInterval, "COMPLETED"),
      Submission("INCOME", 30, "a1", TRUE, "DAILY", "PENDING") }

\* the trigger of the day finds the tasks of the trigger before it finished
triggerDaily ==
    /\ events = EmptyBag
    /\ running = EmptyBag
    /\ triggerRecurringTransactions

processDelivered == \E ev \in BagToSet(events) : processStart(ev)

processCommitted == \E run \in BagToSet(running) : processCommit(run, 0, FALSE)

processFailed ==
    \E run \in BagToSet(running), failAt \in 1..3, retry \in BOOLEAN :
        processCommit(run, failAt, retry)

NextFair ==
    \/ \E data \in [balance : {100}, isDefault : {FALSE}] : createAccount("u1", data)
    \/ /\ nextTxId = 1
       /\ \E data \in FairInputs : createTransaction("u1", data, FALSE)
    \/ triggerDaily
    \/ processDelivered
    \/ processCommitted
    \/ processFailed
    \/ Tick

SpecFair ==
    /\ Init
    /\ [][NextFair]_vars
    /\ WF_vars(triggerDaily)
    /\ WF_vars(processDelivered)
    /\ SF_vars(processCommitted)

IsolationInputs ==
    { Submission("EXPENSE", 30, a, FALSE, NoInterval, "COMPLETED") : a \in AccountIds }

\* two users, their accounts and transactions, and every handler that writes them
NextIsolation ==
    \/ \E u \in Users, data \in [balance : {100}, isDefault : {FALSE}] :
          createAccount(u, data)
    \/ \E u \in Users, data \in IsolationInputs : createTransaction(u, data, FALSE)
    \/ \E u \in Users, id \in TxIds, data \in IsolationInputs : updateTransaction(u, id, data)
    \/ \E u \in Users, id \in TxIds, data \in IsolationInputs :
          /\ \A a \in DOMAIN accounts : accounts[a].balance \in 0..MaxBalance
          /\ seedUpdateTransaction(u, id, data)
    \/ \E u \in Users, id \in TxIds : deleteTransaction(u, id)
    \/ \E u \in Users, ids \in SUBSET TxIds : bulkDeleteTransaction(u, ids)
    \/ \E u \in Users, a \in AccountIds : updateDefaultAccount(u, a)

SpecIsolation == Init /\ [][NextIsolation]_vars

\* one component's hook: its fn called again before earlier calls have settled
NextHook ==
    \/ \E arg \in FetchArgs : fn(arg)
    \/ \E arg \in FetchArgs : \E response \in Responses(arg) : fnResolved(arg, response)
    \/ \E arg \in FetchArgs, err \in Rejections : fnRejected(arg, err)
    \/ setData(NoData)

SpecHook == Init /\ [][NextHook]_vars

\* -------------------------------------------------------------- properties
\* the run of the processor that the step from the unprimed to the primed state completes
Completes(run) == BagIn(run, running) /\ running' = running (-) SetToBag({run})

\* the event that the step takes from the queue
Takes(ev) == BagIn(ev, events) /\ events' = events (-) SetToBag({ev})

C2_AllOrNothing ==
    [][\A run \in BagToSet(running) :
          Completes(run) =>
             LET id == run.ev.transactionId
                 inserted == DOMAIN transactions' # DOMAIN transactions
                 adjusted == accounts' # accounts
                 advanced == /\ id \in DOMAIN transactions'
                             /\ transactions'[id].lastProcessed = now
                             /\ transactions'[id].nextRecurringDate > now
             IN  \/ inserted /\ adjusted /\ advanced
                 \/ transactions' = transactions /\ accounts' = accounts]_vars

\* a run has failed on one of its writes
C2_Witness == last.op = "process" /\ last.status = "failed"

\* the new instance a processor run has made of the recurring row t on day d
IsInstanceOf(r, t, d) ==
    /\ r.status = "COMPLETED"
    /\ ~r.isRecurring
    /\ r.date = d
    /\ r.type = t.type
    /\ r.amount = t.amount
    /\ r.category = t.category
    /\ r.accountId = t.accountId
    /\ r.userId = t.userId

\* C3: the due check is made once, when the run starts: a run that completes without
\* a failed write applies its effects (a new instance, a balance adjustment) even
\* when another run has processed the same transaction since that check, so two
\* concurrent runs for one due occurrence both apply them.
C3_NoRecheckAtCommit ==
    [][\A run \in BagToSet(running) :
          LET id == run.ev.transactionId
          IN  (/\ Completes(run)
               /\ last'.status = "processed"
               /\ id \in DOMAIN transactions
               /\ transactions[id].lastProcessed # run.row.lastProcessed)
              => /\ Cardinality(DOMAIN transactions' \ DOMAIN transactions) = 1
                 /\ accounts'[run.row.accountId].balance =
                       accounts[run.row.accountId].balance
                          + balanceChangeOf(run.row.type, run.row.amount)]_vars

\* one daily income of 30 on an account opened with 100 has been processed twice on
\* the same day: two instances, and the balance raised three times by 30
C3_Witness ==
    /\ DOMAIN transactions = {1, 2, 3}
    /\ transactions[1].isRecurring
    /\ transactions[1].recurringInterval = "DAILY"
    /\ transactions[1].lastProcessed = transactions[2].date
    /\ IsInstanceOf(transactions[2], transactions[1], transactions[3].date)
    /\ IsInstanceOf(transactions[3], transactions[1], transactions[2].date)
    /\ accounts["a1"].balance = 100 + 30 + 30 + 30

\* C4 as stated: a recurring transaction that has been processed has its
\* nextRecurringDate strictly after its lastProcessed, whatever processor runs and
\* updateTransaction calls have been made on it.
C4_NextDueAfterLastProcessed ==
    \A i \in DOMAIN transactions :
        (transactions[i].isRecurring /\ transactions[i].lastProcessed # NoDate
            /\ transactions[i].nextRecurringDate # NoDate)
        => transactions[i].nextRecurringDate > transactions[i].lastProcessed

\* C5: a run for a transaction that does not exist for the event's user, that has no
\* nextRecurringDate, or that is not yet due (lastProcessed set and
\* nextRecurringDate later than now) reports "skipped" and changes no transaction,
\* no account and starts no writes.
C5_SkippedChangesNothing ==
    [][\A ev \in BagToSet(events) :
          LET id == ev.transactionId
              found == id \in DOMAIN transactions /\ transactions[id].userId = ev.userId
              noNextDue == found /\ transactions[id].nextRecurringDate = NoDate
              notYetDue == /\ found
                           /\ transactions[id].lastProcessed # NoDate
                           /\ transactions[id].nextRecurringDate > now
          IN  (Takes(ev) /\ (~found \/ noNextDue \/ notYetDue))
              => /\ last' = Outcome("process", "skipped", id)
                 /\ transactions' = transactions
                 /\ accounts' = accounts
                 /\ running' = running]_vars

\* a run was skipped for a processed transaction whose nextRecurringDate is still ahead
C5_Witness ==
    /\ last.op = "process" /\ last.status = "skipped"
    /\ last.id \in DOMAIN transactions
    /\ transactions[last.id].lastProcessed # NoDate
    /\ transactions[last.id].nextRecurringDate > now

\* the run that the processor starts for the event ev
RunFor(ev) == [ev |-> ev, row |-> transactions[ev.transactionId]]

\* C6 as stated: the processor treats a recurring transaction whose lastProcessed is
\* unset as due, and goes on to its writes, whatever its nextRecurringDate: past,
\* future or absent.
C6_UnprocessedAlwaysDue ==
    [][\A ev \in BagToSet(events) :
          (/\ Takes(ev)
           /\ findTransaction(transactions, ev.transactionId, ev.userId)
           /\ transactions[ev.transactionId].isRecurring
           /\ transactions[ev.transactionId].lastProcessed = NoDate)
          => running' = running (+) SetToBag({RunFor(ev)})]_vars

\* C6 (amended): the processor treats a recurring transaction whose lastProcessed is
\* unset as due, and goes on to its writes, whatever its nextRecurringDate, past or
\* future, provided it has one.
C6_UnprocessedWithNextDateDue ==
    [][\A ev \in BagToSet(events) :
          (/\ Takes(ev)
           /\ findTransaction(transactions, ev.transactionId, ev.userId)
           /\ transactions[ev.transactionId].isRecurring
           /\ transactions[ev.transactionId].lastProcessed = NoDate
           /\ transactions[ev.transactionId].nextRecurringDate # NoDate)
          => running' = running (+) SetToBag({RunFor(ev)})]_vars

\* a run has passed the due check for a transaction never processed whose
\* nextRecurringDate is in the future
C6_Witness ==
    \E run \in BagToSet(running) :
        /\ run.row.lastProcessed = NoDate
        /\ run.row.nextRecurringDate > now

\* C7: a processor run that succeeds for the recurring transaction T creates exactly
\* one transaction, which is COMPLETED, not recurring, dated now and has T's type,
\* amount, category, account and user; it changes the balance of T's account, and
\* no other, by +amount for income and -amount for expense; and it sets
\* T.lastProcessed to now and T.nextRecurringDate to the next occurrence of now
\* (now + 1 daily, now + 7 weekly), leaving every other row as it was.
C7_ProcessingEffect ==
    [][\A run \in BagToSet(running) :
          (Completes(run) /\ last'.status = "processed") =>
             LET id == run.ev.transactionId
                 T == transactions[id]
                 created == DOMAIN transactions' \ DOMAIN transactions
                 change == IF T.type = "INCOME" THEN T.amount ELSE 0 - T.amount
                 nextDue == IF T.recurringInterval = "WEEKLY" THEN now + 7
                            ELSE IF T.recurringInterval = "DAILY" THEN now + 1
                            ELSE calculateNextRecurringDate(now, T.recurringInterval)
             IN  /\ Cardinality(created) = 1
                 /\ \A n \in created : IsInstanceOf(transactions'[n], T, now)
                 /\ DOMAIN accounts' = DOMAIN accounts
                 /\ \A a \in DOMAIN accounts :
                       accounts'[a] = IF a = T.accountId
                                      THEN [accounts[a] EXCEPT !.balance = @ + change]
                                      ELSE accounts[a]
                 /\ transactions'[id] = [T EXCEPT !.lastProcessed = now,
                                                  !.nextRecurringDate = nextDue]
                 /\ \A j \in DOMAIN transactions \ {id} :
                       transactions'[j] = transactions[j]]_vars

\* the weekly expense of 50 on an account opened with 100 has just been processed
C7_Witness ==
    /\ last.op = "process" /\ last.status = "processed"
    /\ last.id \in DOMAIN transactions
    /\ transactions[last.id].recurringInterval = "WEEKLY"
    /\ transactions[last.id].type = "EXPENSE"
    /\ transactions[last.id].lastProcessed = now
    /\ transactions[last.id].nextRecurringDate = now + 7
    /\ \E n \in DOMAIN transactions :
          n # last.id /\ IsInstanceOf(transactions[n], transactions[last.id], now)
    /\ accounts["a2"].balance = 100 - 50 - 50

\* the rows a trigger run has to dispatch: recurring, COMPLETED, and never processed
\* or with a nextRecurringDate that has come
Matching ==
    {i \in DOMAIN transactions :
        /\ transactions[i].isRecurring = TRUE
        /\ transactions[i].status = "COMPLETED"
        /\ \/ transactions[i].lastProcessed = NoDate
           \/ /\ transactions[i].nextRecurringDate # NoDate
              /\ transactions[i].nextRecurringDate <= now}

\* C8: a run of triggerRecurringTransactions adds to the queue exactly one event
\* (transaction id, user id) for each recurring COMPLETED transaction that was never
\* processed or whose nextRecurringDate is now or earlier, adds no other event, and
\* returns the number of events it added.
C8_TriggerDispatchesMatching ==
    [][(last'.op = "trigger" /\ running' = running /\ now' = now)
       => /\ events' = events (+) SetToBag({[transactionId |-> i,
                                             userId |-> transactions[i].userId] :
                                               i \in Matching})
          /\ last'.id = Cardinality(Matching)
          /\ last'.status = "ok"]_vars

\* a trigger run has dispatched one event, for a COMPLETED recurring transaction,
\* while a recurring transaction that is PENDING and a transaction that does not
\* recur were in the table
C8_Witness ==
    /\ last = Outcome("trigger", "ok", 1)
    /\ \E ev \in BagToSet(events) :
          /\ ev.transactionId \in DOMAIN transactions
          /\ transactions[ev.transactionId].status = "COMPLETED"
    /\ \E i \in DOMAIN transactions :
          transactions[i].isRecurring /\ transactions[i].status = "PENDING"
    /\ \E i \in DOMAIN transactions : ~transactions[i].isRecurring

C10_BulkDeleteRestoresBalances ==
    [][(last'.op = "bulkDeleteTransaction" /\ last'.status = "ok") =>
          \A u \in Users, ids \in SUBSET DOMAIN transactions :
             (/\ ids # {}
              /\ last'.id = Cardinality(ids)
              /\ \A i \in ids : findTransaction(transactions, i, u)
              /\ bulkDeleteTransaction(u, ids))
             => /\ DOMAIN transactions' = DOMAIN transactions \ ids
                /\ \A j \in DOMAIN transactions' : transactions'[j] = transactions[j]
                /\ DOMAIN accounts' = DOMAIN accounts
                /\ \A a \in DOMAIN accounts :
                      /\ accounts'[a].balance =
                            accounts[a].balance
                               - (SignedSum(transactions, a) - SignedSum(transactions', a))
                      /\ accounts'[a].balance = opening[a] + SignedSum(transactions', a)
                      /\ (\A i \in ids : transactions[i].accountId # a)
                            => accounts'[a] = accounts[a]]_vars

\* two transactions were deleted at once, all three rows have been created, and two
\* accounts are left with the balances they were opened with and one transaction
C10_Witness ==
    /\ last = Outcome("bulkDeleteTransaction", "ok", 2)
    /\ nextTxId = 4
    /\ Cardinality(DOMAIN transactions) = 1
    /\ \E a, b \in DOMAIN accounts :
          /\ a # b
          /\ accounts[a].balance = opening[a]
          /\ accounts[b].balance # opening[b]

\* C11: in every reachable state, for every account of a user, createTransaction of
\* an income or an expense of amount 30 or 100 on it raises or lowers the balance by
\* that amount, and deleteTransaction of that transaction gives back the balance
\* (and the tables) from before the create.
C11_CreateThenDeleteRestores ==
    \A a \in DOMAIN accounts, type \in {"INCOME", "EXPENSE"}, amount \in {30, 100} :
        LET u == accounts[a].userId
            data == Submission(type, amount, a, FALSE, NoInterval, "COMPLETED")
            created == createTransactionWrites(accounts, transactions, nextTxId, u, data)
            deleted == deleteTransactionWrites(created.acc, created.txs, nextTxId)
        IN  /\ created.acc[a].balance =
                  accounts[a].balance + (IF type = "INCOME" THEN amount ELSE 0 - amount)
            /\ findTransaction(created.txs, nextTxId, u)
            /\ deleted.acc = accounts
            /\ deleted.txs = transactions

\* the only transaction ever created has just been deleted, and an account opened
\* with 0 has balance 0 again
C11_Witness ==
    /\ last = Outcome("deleteTransaction", "ok", 0)
    /\ nextTxId = 2
    /\ DOMAIN transactions = {}
    /\ \E a \in DOMAIN accounts : opening[a] = 0 /\ accounts[a].balance = 0

\* the step from the unprimed to the primed state is the check of the first fetched
\* budget, whose user has a default account
ChecksBudget ==
    /\ checking # << >>
    /\ checking' # checking
    /\ last'.op = "checkBudget"
    /\ Head(checking).accounts # {}

\* the email of the step went out; the step called sendEmail
EmailSent == last'.status \in {"sent", "unrecorded"}

EmailAttempted == last'.status \in {"sent", "unrecorded", "failed", "emailError"}

\* the month of the earlier date is not the month of the later one
MonthDiffers(earlier, later) ==
    \/ getFullYear(earlier) # getFullYear(later)
    \/ getMonth(earlier) # getMonth(later)

\* C12 as stated: in the check of a budget whose user has a default account, the alert
\* email goes out only if usage is at least 80% and lastAlertSent is unset, or
\* lastAlertSent is set and lies in another calendar month than today; and in these
\* two cases the email is sent (unless the expense query failed).
C12_AlertExactlyWhenClaimed ==
    [][ChecksBudget =>
          LET b == Head(checking)
          IN  \A a \in b.accounts :
                 LET totalExpenses == totalExpensesOf(transactions, b.userId, a, now)
                     claimed ==
                         \/ percentageReached(totalExpenses, b.amount) /\ b.lastAlertSent = NoDate
                         \/ b.lastAlertSent # NoDate /\ MonthDiffers(b.lastAlertSent, now)
                 IN  /\ EmailSent => claimed
                     /\ claimed /\ last'.status # "error" => EmailAttempted]_vars

\* C13 as stated: an alert email goes out for a budget only if none has gone out for it
\* before in the same calendar month (alerted is the day of the last email that went
\* out for the user's budget).
C13_AtMostOneAlertPerMonth ==
    [][ChecksBudget /\ EmailSent =>
          LET userId == Head(checking).userId
          IN  alerted[userId] = NoDate \/ MonthDiffers(alerted[userId], now)]_vars

\* C14 as stated: for a budget with an alert on record (lastAlertSent set), a further
\* alert email goes out only if today lies in another calendar month than that alert
\* and usage is at least 80%.
C14_FurtherAlertNeedsUsage ==
    [][ChecksBudget /\ EmailSent /\ Head(checking).lastAlertSent # NoDate =>
          LET b == Head(checking)
          IN  /\ MonthDiffers(b.lastAlertSent, now)
              /\ \A a \in b.accounts :
                    percentageReached(totalExpensesOf(transactions, b.userId, a, now), b.amount)]_vars

\* C15 as stated: a check whose alert email goes out leaves the budget's lastAlertSent
\* at today; a check whose email fails (error result or exception) leaves
\* lastAlertSent as it was.
C15_LastAlertSentFollowsEmail ==
    [][ChecksBudget =>
          LET userId == Head(checking).userId
          IN  /\ EmailSent => budgets'[userId].lastAlertSent = now
              /\ last'.status \in {"failed", "emailError"} =>
                    budgets'[userId].lastAlertSent = budgets[userId].lastAlertSent]_vars

\* C16: the check of one budget, whatever fails in it (the expense query, the email,
\* the update of lastAlertSent), ends without an exception and leaves every budget
\* fetched after it to be checked in the same run; the checker throws only while no
\* fetched budget is being handled (the fetch itself failed).
C16_BudgetFailureIsolated ==
    [][/\ (checking # << >> /\ checking' # checking) =>
             /\ checking' = Tail(checking)
             /\ last'.op = "checkBudget"
             /\ last'.status \in {"skipped", "error", "none", "failed", "emailError",
                                  "unrecorded", "sent"}
       /\ (last'.status = "thrown" /\ last' # last) =>
             /\ last'.op = "checkBudgetAlert"
             /\ checking = << >>
             /\ checking' = << >>]_vars

\* a check has failed and the budget of the other user is still to be checked
C16_Witness ==
    /\ last.op = "checkBudget"
    /\ last.status \in {"error", "failed", "emailError", "unrecorded"}
    /\ Len(checking) = 1
    /\ checking[1].accounts # {}

\* C17 as stated: a step of the report job that takes a user off the fetched batch
\* takes off that user only and ends without an exception, so the users after it are
\* still to be served.
C17_ReportFailureIsolated ==
    [][(reporting # << >> /\ reporting' # reporting) =>
          /\ reporting' = Tail(reporting)
          /\ last'.status # "thrown"]_vars

\* C18 as stated: in every reachable state each user has at most one account with
\* isDefault = TRUE.
C18_AtMostOneDefault ==
    \A u \in Users :
        Cardinality({a \in DOMAIN accounts : accounts[a].userId = u /\ accounts[a].isDefault}) <= 1

\* C19 as stated: a request that arrives without a session ends with an authorization
\* error (or, for the two read operations that catch it, with null), returns no
\* stored row and leaves the accounts, the transactions and the budgets as they were.
C19_NoSessionNoAccess ==
    [][Requests(NoUser) =>
          /\ last'.status \in {"unauthorized", "null"}
          /\ UNCHANGED <<accounts, transactions, budgets>>]_vars

\* C20 as stated: for a tag outside DAILY, WEEKLY, MONTHLY and YEARLY no date comes
\* back, neither from the processor's calculateNextRecurringDate (NoDate stands for
\* its exception) nor in the nextRecurringDate of the row that createTransaction and
\* updateTransaction build from today's submission.
C20_UnknownIntervalIsFatal ==
    \A data \in IntervalInputs :
        data.recurringInterval \notin Intervals =>
            /\ calculateNextRecurringDate(now, data.recurringInterval) = NoDate
            /\ transactionRow("u1", [data EXCEPT !.date = now]).nextRecurringDate = NoDate

\* the date r is the calendar day (year, month, day), or, when that month has fewer
\* days, the day that many days past its end
IsCalendarDay(r, year, month, day) ==
    IF day <= DaysInMonth(year, month)
    THEN getFullYear(r) = year /\ getMonth(r) = month /\ getDate(r) = day
    ELSE /\ getFullYear(r) = (IF month = 11 THEN year + 1 ELSE year)
         /\ getMonth(r) = (month + 1) % 12
         /\ getDate(r) = day - DaysInMonth(year, month)

\* what the claim says of the next occurrence r after the date d
IsNextOccurrence(r, d, interval) ==
    /\ r > d
    /\ interval = "DAILY" => r = d + 1
    /\ interval = "WEEKLY" => r = d + 7
    /\ interval = "MONTHLY" =>
          IsCalendarDay(r, IF getMonth(d) = 11 THEN getFullYear(d) + 1 ELSE getFullYear(d),
                        (getMonth(d) + 1) % 12, getDate(d))
    /\ interval = "YEARLY" => IsCalendarDay(r, getFullYear(d) + 1, getMonth(d), getDate(d))

\* C21: for today's date and each of the four intervals both copies of
\* calculateNextRecurringDate return the next day, the day a week later, the same day
\* of the next calendar month or of the next year (running over into the month after
\* when that day does not exist), always a later day; and the recurring rows carry
\* such a date: counted from their own date until they are processed, from
\* lastProcessed afterwards.
C21_NextRecurringDate ==
    /\ \A interval \in Intervals :
          /\ IsNextOccurrence(calculateNextRecurringDate(now, interval), now, interval)
          /\ IsNextOccurrence(calculateNextRecurringDateAction(now, interval), now, interval)
    /\ \A id \in DOMAIN transactions :
          LET t == transactions[id]
          IN  t.isRecurring =>
                 IsNextOccurrence(t.nextRecurringDate,
                                  IF t.lastProcessed = NoDate THEN t.date ELSE t.lastProcessed,
                                  t.recurringInterval)

\* on 31 January 2024 a monthly row dated that day has been processed and is next due
\* on 2 March 2024, 31 days later
C21_Witness ==
    /\ now = 30
    /\ \E id \in DOMAIN transactions :
          /\ transactions[id].recurringInterval = "MONTHLY"
          /\ transactions[id].lastProcessed = 30
          /\ transactions[id].nextRecurringDate = 61
          /\ getMonth(61) = 2 /\ getDate(61) = 2

\* C22 as stated: once no request is in progress, the balance of every account is the
\* balance it was created with plus the effects of the transactions on it: every
\* request's delta has been applied, none was lost.
C22_NoLostUpdate ==
    calls = EmptyBag =>
        \A a \in DOMAIN accounts : accounts[a].balance = opening[a] + SignedSum(transactions, a)

\* the recurring transaction id has status COMPLETED and is due: never processed, or
\* its nextRecurringDate has come
DueCompleted(id) ==
    /\ id \in DOMAIN transactions
    /\ transactions[id].isRecurring
    /\ transactions[id].status = "COMPLETED"
    /\ \/ transactions[id].lastProcessed = NoDate
       \/ (transactions[id].nextRecurringDate # NoDate /\ transactions[id].nextRecurringDate <= now)

\* the transaction id has been processed today: lastProcessed is today, its next
\* occurrence lies ahead, and the instance of today is in the table
ProcessedToday(id) ==
    /\ id \in DOMAIN transactions
    /\ transactions[id].lastProcessed = now
    /\ transactions[id].nextRecurringDate > now
    /\ \E j \in DOMAIN transactions :
          /\ j # id
          /\ ~transactions[j].isRecurring
          /\ transactions[j].date = now
          /\ transactions[j].accountId = transactions[id].accountId

C24_FailedUpdateChangesNothing ==
    [][/\ (last'.op = "updateTransaction" /\ last'.status = "error") =>
             UNCHANGED <<accounts, transactions>>
       /\ \A u \in Users, id \in DOMAIN transactions, data \in LedgerInputs :
             (findTransaction(transactions, id, u) /\ ~findAccount(accounts, data.accountId, u)) =>
                LET db == updateTransactionWrites(accounts, transactions, id, u, data)
                IN  ~db.ok /\ db.acc = accounts /\ db.txs = transactions]_vars

\* an updateTransaction has failed while a user has a transaction and the other
\* account belongs to the other user
C24_Witness ==
    /\ last = Outcome("updateTransaction", "error", 0)
    /\ \E id \in DOMAIN transactions, a \in DOMAIN accounts :
          /\ a # transactions[id].accountId
          /\ accounts[a].userId # transactions[id].userId

\* C25: an event delivered for a transaction that has been processed and whose
\* nextRecurringDate is still ahead is answered "skipped", starts no run and changes
\* no table; and a run that read the transaction after its last processing commits
\* only once the nextRecurringDate it read has come, so that runs one after the other
\* add one instance per due period.
C25_DuplicateAfterCommitSkipped ==
    [][/\ \A ev \in BagToSet(events) :
             LET id == ev.transactionId
             IN  (/\ Takes(ev)
                  /\ findTransaction(transactions, id, ev.userId)
                  /\ transactions[id].lastProcessed # NoDate
                  /\ now < transactions[id].nextRecurringDate)
                 => /\ last' = Outcome("process", "skipped", id)
                    /\ UNCHANGED <<accounts, transactions, nextTxId, running>>
       /\ \A run \in BagToSet(running) :
             LET id == run.ev.transactionId
             IN  (/\ Completes(run)
                  /\ last' = Outcome("process", "processed", id)
                  /\ id \in DOMAIN transactions
                  /\ run.row = transactions[id]
                  /\ run.row.lastProcessed # NoDate)
                 => /\ run.row.nextRecurringDate <= now
                    /\ run.row.lastProcessed < now]_vars

\* of two events dispatched for the daily transaction the first was processed today
\* and the second, delivered after it, was skipped: one instance
C25_Witness ==
    /\ last = Outcome("process", "skipped", 1)
    /\ 1 \in DOMAIN transactions
    /\ transactions[1].lastProcessed = now
    /\ transactions[1].nextRecurringDate > now
    /\ Cardinality({j \in DOMAIN transactions :
                       ~transactions[j].isRecurring /\ transactions[j].date = now}) = 1
    /\ events = EmptyBag /\ running = EmptyBag

\* the row of the event is one the trigger's query selects now, for the event's user
Selected(ev) ==
    /\ ev.transactionId \in dueRecurring(transactions, now)
    /\ transactions[ev.transactionId].userId = ev.userId

\* the run's row is in the database as the run read it
Unmodified(run) ==
    /\ run.ev.transactionId \in DOMAIN transactions
    /\ transactions[run.ev.transactionId] = run.row

Inserted == {i \in DOMAIN transactions' : i \notin DOMAIN transactions}

\* C27: the row a processor run inserts is non-recurring, has neither a
\* nextRecurringDate nor a lastProcessed, and is all the run inserts; a non-recurring
\* row is not in the trigger's selection, has no event and no run, and the processor
\* would skip an event carrying its id: no instance is made from an instance.
C27_InstancesNeverCascade ==
    [][/\ \A run \in BagToSet(running) :
             (Completes(run) /\ last'.status = "processed")
                => /\ Cardinality(Inserted) = 1
                   /\ \A i \in Inserted :
                         /\ ~transactions'[i].isRecurring
                         /\ transactions'[i].nextRecurringDate = NoDate
                         /\ transactions'[i].lastProcessed = NoDate
                         /\ IsInstanceOf(transactions'[i], run.row, now)
       /\ \A i \in DOMAIN transactions :
             ~transactions[i].isRecurring
                => /\ i \notin dueRecurring(transactions, now)
                   /\ \A ev \in BagToSet(events) : ev.transactionId # i
                   /\ \A run \in BagToSet(running) : run.ev.transactionId # i
                   /\ processSkips(transactions,
                                   [transactionId |-> i, userId |-> transactions[i].userId],
                                   now)
       /\ \A run \in BagToSet(running) : run.row.isRecurring]_vars

\* the trigger has run with an instance of today in the table and has selected
\* nothing: neither the instance nor the transaction it was made from
C27_Witness ==
    /\ last = Outcome("trigger", "ok", 0)
    /\ events = EmptyBag
    /\ \E i, j \in DOMAIN transactions :
          /\ transactions[i].isRecurring
          /\ transactions[i].lastProcessed = now
          /\ IsInstanceOf(transactions[j], transactions[i], now)
          /\ transactions[j].nextRecurringDate = NoDate

\* the step is a request of user u
ActsFor(u) ==
    \/ \E data \in IsolationInputs : createTransaction(u, data, FALSE)
    \/ \E id \in TxIds, data \in IsolationInputs : updateTransaction(u, id, data)
    \/ \E id \in TxIds, data \in IsolationInputs : seedUpdateTransaction(u, id, data)
    \/ \E id \in TxIds : deleteTransaction(u, id)
    \/ \E ids \in SUBSET TxIds : bulkDeleteTransaction(u, ids)
    \/ \E a \in AccountIds : updateDefaultAccount(u, a)

\* the step leaves what belongs to the users other than u as it is
OthersUntouched(u) ==
    /\ \A i \in DOMAIN transactions :
          transactions[i].userId # u
             => i \in DOMAIN transactions' /\ transactions'[i] = transactions[i]
    /\ \A i \in DOMAIN transactions' :
          i \notin DOMAIN transactions => transactions'[i].userId = u
    /\ \A a \in DOMAIN accounts :
          accounts[a].userId # u => a \in DOMAIN accounts' /\ accounts'[a] = accounts[a]

\* C28 as stated: a request of user u creates, changes and deletes no transaction of
\* another user and changes neither the balance nor the default flag of another
\* user's account.
C28_OtherUsersUntouched ==
    [][\A u \in Users : ActsFor(u) => OthersUntouched(u)]_vars

\* C29 as stated: when no account request is in progress, every user who owns an
\* account owns a default account.
C29_OwnerHasDefault ==
    calls = EmptyBag =>
       \A u \in Users :
          (\E a \in DOMAIN accounts : accounts[a].userId = u)
             => \E a \in DOMAIN accounts : accounts[a].userId = u /\ accounts[a].isDefault

\* C30 as stated: after every step of the hook, loading is true exactly when a call
\* of fn is in flight; and a call that fails sets error and leaves data as it was.
C30_LoadingWhileInFlight ==
    [][/\ hook'.loading = (hook'.inFlight # EmptyBag)
       /\ (hook' # hook /\ last' = Outcome("fn", "rejected", 0))
             => hook'.error # NoError /\ hook'.data = hook.data]_vars

====
